---- MODULE Spec2Model ----
(***************************************************************************)
(* Hospital-tickets-app: the ticket creation screen                        *)
(* (src/src/screens/CreateTicketScreen.tsx) and the ticket detail screen   *)
(* (src/unnamed/part_000), as state machines over the remote store.        *)
(*                                                                         *)
(* One action is one JavaScript task: an event handler up to its first     *)
(* await, or the continuation of an await once its promise has settled.    *)
(* React state set inside a task is rendered before the next event is      *)
(* dispatched, so a control's guard (disabled, conditional rendering) is   *)
(* evaluated on the state the previous task left.  A handler's closure     *)
(* keeps the values of the render it was created in: every asynchronous    *)
(* handler call in flight is a record holding what it captured.            *)
(* A state variable holds the last value handed to its setter, also when   *)
(* the setter is called after the screen was unmounted.                    *)
(***************************************************************************)
EXTENDS Integers, Sequences, FiniteSets, TLC

VARIABLES
    user,            \* the session user handed to both screens (prop)
    \* ---- CreateTicketScreen
    title, description, category, location, imageUri,
    isLoading, snackbarVisible,
    submits,         \* handleSubmit calls in flight (a sequence of closures)
    storage,         \* object storage: the file names uploaded
    created,         \* the records addDoc has inserted into 'tickets'
    timers,          \* pending setTimeout(goBack, 1500) callbacks
    createAlert,     \* the last Alert.alert of the creation screen
    createGoBacks,   \* navigation.goBack() calls of the creation screen
    createMounted,   \* the creation screen is on screen
    \* ---- TicketDetailScreen
    ticketId,        \* route.params.ticketId
    ticket, comments, newComment, detailIsLoading, isAddingComment,
    adminMenuVisible,
    ticketSubs,      \* live listeners on ticket records: [id, last snapshot]
    commentSubs,     \* live listeners on comment subcollections
    docs,            \* the store: ticket id -> record (or NoDoc)
    docComments,     \* the store: ticket id -> its comments, by createdAt
    adds,            \* handleAddComment calls in flight
    updates,         \* handleUpdate calls in flight
    deletes,         \* performDelete calls in flight
    prompt,          \* the open confirmation Alert (the ticket id it holds)
    confirmed,       \* the answer to the last confirmation prompt
    detailAlert,     \* the last error Alert.alert of the detail screen
    detailGoBacks,   \* navigation.goBack() calls of the detail screen
    detailMounted,   \* the detail screen is on screen
    canGoBack,       \* navigation.canGoBack()
    platform,        \* Platform.OS
    ops              \* operations started so far (see MaxOps)

createVars == <<title, description, category, location, imageUri, isLoading,
                snackbarVisible, submits, storage, created, timers,
                createAlert, createGoBacks, createMounted>>

detailVars == <<ticketId, ticket, comments, newComment, detailIsLoading,
                isAddingComment, adminMenuVisible, ticketSubs, commentSubs,
                docs, docComments, adds, updates, deletes, prompt, confirmed,
                detailAlert, detailGoBacks, detailMounted, canGoBack, platform,
                ops>>

vars == <<user, createVars, detailVars>>

----------------------------------------------------------------------------
(* Bounds of the model *)

\* tickets the model lets one creation screen instance insert
MaxCreated == 1
\* operations the model follows on one detail screen instance: the writes
\* the user starts, the writes of other clients, the route changes
MaxOps == 2

----------------------------------------------------------------------------
(* Values *)

Null == "null"

\* Text is a sequence of one-character strings
Blank  == <<" ">>
Padded == <<" ", "a", " ">>
\* what the user may type into a text field
TextInputs == {<< >>, Blank, Padded}

IsSpace(c) == c = " "

RECURSIVE TrimStart(_)
TrimStart(s) ==
    IF s = << >> THEN << >>
    ELSE IF IsSpace(Head(s)) THEN TrimStart(Tail(s)) ELSE s

RECURSIVE TrimEnd(_)
TrimEnd(s) ==
    IF s = << >> THEN << >>
    ELSE IF IsSpace(s[Len(s)]) THEN TrimEnd(SubSeq(s, 1, Len(s) - 1)) ELSE s

\* String.prototype.trim
Trim(s) == TrimEnd(TrimStart(s))

\* the session users: nobody, an administrator, a plain user
NoUser == [id |-> Null, name |-> Null, role |-> Null]
Users == {NoUser,
          [id |-> "u1", name |-> "Ana", role |-> "admin"],
          [id |-> "u2", name |-> "Beto", role |-> "user"]}

\* TICKET_CATEGORIES of the creation screen (the values)
TICKET_CATEGORIES ==
    {"hardware", "software", "network", "printer", "user_support", "other"}
\* the categories the model lets the user select
Categories == {"hardware", "software"}

\* local image handles the pickers return
ImageUris == {"uri1"}
\* generated storage paths: evidence/<time>_<random>.jpg
Filenames == {"evidence1"}
\* getDownloadURL
DownloadURL(f) == <<"url", f>>
NoUrl == << >>

RemoveAt(s, i) == SubSeq(s, 1, i - 1) \o SubSeq(s, i + 1, Len(s))

----------------------------------------------------------------------------
(* CreateTicketScreen *)

\* lines 48-54: the useState initial values of the form
FormInit ==
    /\ title = << >>
    /\ description = << >>
    /\ category = "hardware"
    /\ location = << >>
    /\ imageUri = Null

CreateInit ==
    /\ isLoading = FALSE
    /\ snackbarVisible = FALSE
    /\ submits = << >>
    /\ storage = {}
    /\ created = << >>
    /\ timers = 0
    /\ createAlert = "none"
    /\ createGoBacks = 0

\* FormIncomplete with the location check left out
FormIncompleteNoLocation ==
    \/ Trim(title) = << >>
    \/ Trim(description) = << >>
    \/ user = NoUser

\* line 116: the handler's own validation
FormIncomplete ==
    \/ Trim(title) = << >>
    \/ Trim(description) = << >>
    \/ Trim(location) = << >>
    \/ user = NoUser

\* SubmitDisabled without the in-flight flag
SubmitDisabledIgnoringLoading ==
    \/ Trim(title) = << >>
    \/ Trim(description) = << >>
    \/ Trim(location) = << >>

\* line 211: the submit Button's disabled prop
SubmitDisabled ==
    \/ isLoading
    \/ Trim(title) = << >>
    \/ Trim(description) = << >>
    \/ Trim(location) = << >>

\* TicketDoc with the title stored as typed
TicketDocUntrimmed(c, imageUrl) ==
    [title         |-> c.title,
     description   |-> Trim(c.description),
     category      |-> c.category,
     priority      |-> "medium",
     status        |-> "open",
     createdBy     |-> user.id,
     createdByName |-> user.name,
     location      |-> Trim(c.location),
     imageUrl      |-> imageUrl,
     createdAt     |-> "serverTimestamp",
     updatedAt     |-> "serverTimestamp"]

\* lines 129-141: the record handed to addDoc, built from the closure c
TicketDoc(c, imageUrl) ==
    [title         |-> Trim(c.title),
     description   |-> Trim(c.description),
     category      |-> c.category,
     priority      |-> "medium",
     status        |-> "open",
     createdBy     |-> user.id,
     createdByName |-> user.name,
     location      |-> Trim(c.location),
     imageUrl      |-> imageUrl,
     createdAt     |-> "serverTimestamp",
     updatedAt     |-> "serverTimestamp"]

NoDoc == [none |-> TRUE]

\* what a handleSubmit call captured from its render, and where it stands:
\*   "fetch"  awaiting fetch(uri) / response.blob()     (lines 101-102)
\*   "upload" awaiting uploadBytes(storageRef, blob)    (line 107)
\*   "url"    awaiting getDownloadURL(storageRef)       (line 108)
\*   "insert" awaiting addDoc(collection 'tickets')     (line 129)
Closure(stage, filename, doc) ==
    [stage       |-> stage,
     title       |-> title,
     description |-> description,
     category    |-> category,
     location    |-> location,
     imageUri    |-> imageUri,
     filename    |-> filename,
     doc         |-> doc]

\* line 125: if (imageUri) upload first, else go straight to addDoc
StartSubmit ==
    IF imageUri # Null
    THEN Closure("fetch", Null, NoDoc)
    ELSE Closure("insert", Null, TicketDoc(Closure("insert", Null, NoDoc), NoUrl))

\* lines 115-127: handleSubmit up to its first await
HandleSubmit ==
    IF FormIncomplete
    THEN /\ createAlert' = "Campos incompletos"
         /\ UNCHANGED <<title, description, category, location, imageUri,
                        isLoading, snackbarVisible, submits, storage, created,
                        timers, createGoBacks, createMounted>>
    ELSE /\ isLoading' = TRUE
         /\ submits' = Append(submits, StartSubmit)
         /\ UNCHANGED <<title, description, category, location, imageUri,
                        snackbarVisible, storage, created, timers, createAlert,
                        createGoBacks, createMounted>>

\* lines 207-216: a press of the submit Button
PressSubmit ==
    /\ createMounted
    /\ ~SubmitDisabled
    /\ Len(created) < MaxCreated
    /\ HandleSubmit
    /\ UNCHANGED <<user, detailVars>>

\* SubmitFails without the finally block
SubmitFailsKeepsLoading(i) ==
    /\ createAlert' = "Error"
    /\ submits' = RemoveAt(submits, i)
    /\ UNCHANGED <<title, description, category, location, imageUri,
                   isLoading, snackbarVisible, created, timers,
                   createGoBacks, createMounted>>

\* lines 149-154: catch (Alert) and finally (setIsLoading(false)) of call i
SubmitFails(i) ==
    /\ createAlert' = "Error"
    /\ isLoading' = FALSE
    /\ submits' = RemoveAt(submits, i)
    /\ UNCHANGED <<title, description, category, location, imageUri,
                   snackbarVisible, created, timers, createGoBacks,
                   createMounted>>

\* lines 101-105: fetch and blob settle; the storage path is generated
FetchSettles(i, ok, f) ==
    /\ i \in 1..Len(submits)
    /\ submits[i].stage = "fetch"
    /\ IF ok
       THEN /\ submits' = [submits EXCEPT ![i].stage = "upload",
                                          ![i].filename = f]
            /\ UNCHANGED <<title, description, category, location, imageUri,
                           isLoading, snackbarVisible, storage, created,
                           timers, createAlert, createGoBacks, createMounted>>
       ELSE /\ SubmitFails(i)
            /\ UNCHANGED storage
    /\ UNCHANGED <<user, detailVars>>

\* line 107: uploadBytes settles
UploadSettles(i, ok) ==
    /\ i \in 1..Len(submits)
    /\ submits[i].stage = "upload"
    /\ IF ok
       THEN /\ storage' = storage \cup {submits[i].filename}
            /\ submits' = [submits EXCEPT ![i].stage = "url"]
            /\ UNCHANGED <<title, description, category, location, imageUri,
                           isLoading, snackbarVisible, created, timers,
                           createAlert, createGoBacks, createMounted>>
       ELSE /\ SubmitFails(i)
            /\ UNCHANGED storage
    /\ UNCHANGED <<user, detailVars>>

\* UrlSettles with a failed upload swallowed: the record is inserted
\* without its image
UrlSettlesIgnoringFailure(i, ok) ==
    /\ i \in 1..Len(submits)
    /\ submits[i].stage = "url"
    /\ submits' = [submits EXCEPT
          ![i].stage = "insert",
          ![i].doc = TicketDoc(submits[i],
                               IF ok THEN DownloadURL(submits[i].filename)
                               ELSE NoUrl)]
    /\ UNCHANGED <<title, description, category, location, imageUri,
                   isLoading, snackbarVisible, created, timers,
                   createAlert, createGoBacks, createMounted>>
    /\ UNCHANGED <<user, detailVars, storage>>

\* lines 108, 126-141: getDownloadURL settles; on success addDoc is issued
UrlSettles(i, ok) ==
    /\ i \in 1..Len(submits)
    /\ submits[i].stage = "url"
    /\ IF ok
       THEN /\ submits' = [submits EXCEPT
                  ![i].stage = "insert",
                  ![i].doc = TicketDoc(submits[i],
                                       DownloadURL(submits[i].filename))]
            /\ UNCHANGED <<title, description, category, location, imageUri,
                           isLoading, snackbarVisible, created, timers,
                           createAlert, createGoBacks, createMounted>>
       ELSE SubmitFails(i)
    /\ UNCHANGED <<user, detailVars, storage>>

\* lines 129-154: addDoc settles
InsertSettles(i, ok) ==
    /\ i \in 1..Len(submits)
    /\ submits[i].stage = "insert"
    /\ IF ok
       THEN /\ created' = Append(created, submits[i].doc)
            /\ snackbarVisible' = TRUE
            /\ timers' = timers + 1
            /\ isLoading' = FALSE
            /\ submits' = RemoveAt(submits, i)
            /\ UNCHANGED <<title, description, category, location, imageUri,
                           createAlert, createGoBacks, createMounted>>
       ELSE SubmitFails(i)
    /\ UNCHANGED <<user, detailVars, storage>>

\* navigation.goBack() of the creation screen: the screen is left
CreateGoBack ==
    /\ createGoBacks' = createGoBacks + 1
    /\ createMounted' = FALSE

\* lines 145-147: the 1.5 s timer fires
TimerFires ==
    /\ timers > 0
    /\ timers' = timers - 1
    /\ CreateGoBack
    /\ UNCHANGED <<user, detailVars, title, description, category, location, imageUri,
                   isLoading, snackbarVisible, submits, storage, created,
                   createAlert>>

\* lines 226-231: the notification's OK action
SnackbarOk ==
    /\ createMounted
    /\ snackbarVisible
    /\ CreateGoBack
    /\ UNCHANGED <<user, detailVars, title, description, category, location, imageUri,
                   isLoading, snackbarVisible, submits, storage, created,
                   timers, createAlert>>

\* line 223: onDismiss
SnackbarDismiss ==
    /\ createMounted
    /\ snackbarVisible
    /\ snackbarVisible' = FALSE
    /\ UNCHANGED <<user, detailVars, title, description, category, location, imageUri,
                   isLoading, submits, storage, created, timers, createAlert,
                   createGoBacks, createMounted>>

\* lines 169, 170, 205: onChangeText of the three text inputs
SetTitle(t) ==
    /\ createMounted
    /\ title' = t
    /\ UNCHANGED <<user, detailVars, description, category, location, imageUri, isLoading,
                   snackbarVisible, submits, storage, created, timers,
                   createAlert, createGoBacks, createMounted>>

SetDescription(t) ==
    /\ createMounted
    /\ description' = t
    /\ UNCHANGED <<user, detailVars, title, category, location, imageUri, isLoading,
                   snackbarVisible, submits, storage, created, timers,
                   createAlert, createGoBacks, createMounted>>

SetLocation(t) ==
    /\ createMounted
    /\ location' = t
    /\ UNCHANGED <<user, detailVars, title, description, category, imageUri, isLoading,
                   snackbarVisible, submits, storage, created, timers,
                   createAlert, createGoBacks, createMounted>>

\* line 177: a category tile is pressed
SetCategory(c) ==
    /\ createMounted
    /\ category' = c
    /\ UNCHANGED <<user, detailVars, title, description, location, imageUri, isLoading,
                   snackbarVisible, submits, storage, created, timers,
                   createAlert, createGoBacks, createMounted>>

\* lines 56-97, 196: the attach button (offered while no image is attached)
HandlePickImage(outcome, uri) ==
    /\ createMounted
    /\ imageUri = Null
    /\ CASE outcome = "denied" ->
              /\ createAlert' = "Permiso denegado"
              /\ UNCHANGED imageUri
         [] outcome = "selected" ->
              /\ imageUri' = uri
              /\ UNCHANGED createAlert
    /\ UNCHANGED <<user, detailVars, title, description, category, location, isLoading,
                   snackbarVisible, submits, storage, created, timers,
                   createGoBacks, createMounted>>

\* line 191: the remove button of the preview
RemoveImage ==
    /\ createMounted
    /\ imageUri # Null
    /\ imageUri' = Null
    /\ UNCHANGED <<user, detailVars, title, description, category, location, isLoading,
                   snackbarVisible, submits, storage, created, timers,
                   createAlert, createGoBacks, createMounted>>

----------------------------------------------------------------------------
(* TicketDetailScreen: values *)

TicketIds == {"t1", "t2"}

\* useState<Ticket | null>(null)
NoTicket == [none |-> TRUE]
NoSnap == [none |-> TRUE]
NoPrompt == [none |-> TRUE]

\* a ticket as the creation screen leaves it in the store
DocA == [status |-> "open", priority |-> "medium", imageUrl |-> NoUrl,
         createdAt |-> "ts1", updatedAt |-> "ts1"]
\* a ticket written by another client: no createdAt, no imageUrl
DocB == [status |-> "pending", priority |-> "high", updatedAt |-> "ts2"]
ExternalDocs == {DocA, DocB}

\* a comment another user has added
ExternalComment == [userId |-> "u9", userName |-> "Caro",
                    content |-> <<"x">>, createdAt |-> "ts2"]

\* lines 84, 95: x.createdAt?.toDate() ?? new Date()
ToDate(data, f) ==
    IF f \in DOMAIN data /\ data[f] # Null
    THEN <<"Date", data[f]>>
    ELSE <<"Date", "now">>

\* line 84: { id: doc.id, ...data, createdAt: ..., updatedAt: ... }
TicketFromSnapshot(id, data) ==
    [f \in DOMAIN data \cup {"id", "createdAt", "updatedAt"} |->
        IF f \in {"createdAt", "updatedAt"} THEN ToDate(data, f)
        ELSE IF f \in DOMAIN data THEN data[f]
        ELSE id]

\* line 95: { id: doc.id, ...doc.data(), createdAt: ... }
CommentFromSnapshot(id, data) ==
    [f \in DOMAIN data \cup {"id", "createdAt"} |->
        IF f = "createdAt" THEN ToDate(data, f)
        ELSE IF f \in DOMAIN data THEN data[f]
        ELSE id]

\* what a listener on ticket s is handed now
TicketSnap(s) == [exists |-> docs[s] # NoDoc, data |-> docs[s]]
\* what a listener on the comments of ticket s is handed now (line 93: the
\* subcollection ordered by createdAt ascending; a comment's id is its place)
CommentSnap(s) == [docs |-> docComments[s]]

\* line 164: the screen renders the ticket (and its controls)
Rendered == ~detailIsLoading /\ ticket # NoTicket

\* the user can press a control of the detail screen
Interactive == detailMounted /\ Rendered /\ prompt = NoPrompt

\* AdminMenuOffered without the role check
AdminMenuOfferedToAll == TRUE

\* line 188: the administrative menu is part of the header
AdminMenuOffered == user.role = "admin"

\* lines 197-203: the Menu.Items that call handleUpdate
MenuUpdates ==
    {u \in [field : {"status"}, value : {"resolved", "in_progress"}] :
        ticket["status"] # u.value}
    \cup [field : {"priority"}, value : {"low", "medium", "high"}]

\* line 271: the add Button's disabled prop
AddDisabled == Trim(newComment) = << >> \/ isAddingComment

\* lines 107-110: the record handed to addDoc
CommentDoc ==
    [userId |-> user.id, userName |-> user.name,
     content |-> Trim(newComment), createdAt |-> "serverTimestamp"]

\* the store resolves serverTimestamp() when it applies a write
Resolve(data) ==
    [f \in DOMAIN data |->
        IF data[f] = "serverTimestamp" THEN "tsServer" ELSE data[f]]

\* updateDoc: the named fields are overwritten, the others kept
Merge(d, upd) ==
    [f \in DOMAIN d \cup DOMAIN upd |->
        IF f \in DOMAIN upd THEN upd[f] ELSE d[f]]

DetailInit ==
    /\ ticketId = "t1"
    /\ ticket = NoTicket
    /\ comments = << >>
    /\ newComment = << >>
    /\ detailIsLoading = TRUE
    /\ isAddingComment = FALSE
    /\ adminMenuVisible = FALSE
    /\ docs = [s \in TicketIds |-> IF s = "t1" THEN DocA ELSE DocB]
    /\ docComments = [s \in TicketIds |-> << >>]
    /\ adds = << >>
    /\ updates = << >>
    /\ deletes = << >>
    /\ prompt = NoPrompt
    /\ confirmed = "none"
    /\ detailAlert = "none"
    /\ detailGoBacks = 0
    /\ ops = 0

\* lines 79-97: the effect has run for ticketId
Subscribed ==
    /\ ticketSubs = {[id |-> ticketId, last |-> NoSnap]}
    /\ commentSubs = {[id |-> ticketId, last |-> NoSnap]}

Init ==
    /\ user \in Users
    /\ FormInit
    /\ CreateInit
    /\ DetailInit
    /\ \/ /\ createMounted = TRUE
          /\ detailMounted = FALSE
          /\ ticketSubs = {}
          /\ commentSubs = {}
          /\ canGoBack = TRUE
          /\ platform = "web"
       \/ /\ createMounted = FALSE
          /\ detailMounted = TRUE
          /\ Subscribed
          /\ canGoBack \in BOOLEAN
          /\ platform \in {"web", "native"}

----------------------------------------------------------------------------
(* TicketDetailScreen: operations *)

\* what no operation of the detail screen touches
detailFixed == <<user, createVars, canGoBack, platform>>

\* line 99: the effect's cleanup
NoSubs == ticketSubs' = {} /\ commentSubs' = {}

\* navigation.goBack() of the detail screen: the screen is left (and its
\* effect cleaned up) when there is a screen to go back to
DetailGoBack ==
    /\ detailGoBacks' = detailGoBacks + 1
    /\ IF canGoBack /\ detailMounted
       THEN detailMounted' = FALSE /\ NoSubs
       ELSE UNCHANGED <<detailMounted, ticketSubs, commentSubs>>

Delivered(subs, l, snap) == (subs \ {l}) \cup {[l EXCEPT !.last = snap]}

\* lines 81-91: the ticket listener's callback
TicketSnapshot(l) ==
    /\ l \in ticketSubs
    /\ TicketSnap(l.id) # l.last
    /\ IF TicketSnap(l.id).exists
       THEN /\ ticket' = TicketFromSnapshot(l.id, TicketSnap(l.id).data)
            /\ ticketSubs' = Delivered(ticketSubs, l, TicketSnap(l.id))
            /\ UNCHANGED <<detailGoBacks, detailMounted, commentSubs>>
       ELSE /\ UNCHANGED ticket
            /\ IF canGoBack
               THEN DetailGoBack
               ELSE /\ ticketSubs' = Delivered(ticketSubs, l, TicketSnap(l.id))
                    /\ UNCHANGED <<detailGoBacks, detailMounted, commentSubs>>
    /\ detailIsLoading' = FALSE
    /\ UNCHANGED <<detailFixed, ticketId, comments, newComment,
                   isAddingComment, adminMenuVisible, docs, docComments, adds,
                   updates, deletes, prompt, confirmed, detailAlert, ops>>

\* the comments of a snapshot, as line 95 maps them
CommentsFromSnapshot(snap) ==
    [k \in 1..Len(snap.docs) |-> CommentFromSnapshot(k, snap.docs[k])]

\* lines 94-97: the comment listener's callback
CommentsSnapshot(l) ==
    /\ l \in commentSubs
    /\ CommentSnap(l.id) # l.last
    /\ comments' = CommentsFromSnapshot(CommentSnap(l.id))
    /\ commentSubs' = Delivered(commentSubs, l, CommentSnap(l.id))
    /\ UNCHANGED <<detailFixed, ticketId, ticket, newComment, detailIsLoading,
                   isAddingComment, adminMenuVisible, ticketSubs, docs,
                   docComments, adds, updates, deletes, prompt, confirmed,
                   detailAlert, detailGoBacks, detailMounted, ops>>

\* lines 79-100: route.params.ticketId changes: cleanup, then the effect again
ChangeTicketId(id) ==
    /\ detailMounted
    /\ id # ticketId
    /\ ops < MaxOps
    /\ ops' = ops + 1
    /\ ticketId' = id
    /\ ticketSubs' = {[id |-> id, last |-> NoSnap]}
    /\ commentSubs' = {[id |-> id, last |-> NoSnap]}
    /\ UNCHANGED <<detailFixed, ticket, comments, newComment, detailIsLoading,
                   isAddingComment, adminMenuVisible, docs, docComments, adds,
                   updates, deletes, prompt, confirmed, detailAlert,
                   detailGoBacks, detailMounted>>

\* line 99: the screen is dismissed by the navigation host
LeaveScreen ==
    /\ detailMounted
    /\ detailMounted' = FALSE
    /\ NoSubs
    /\ UNCHANGED <<detailFixed, ticketId, ticket, comments, newComment,
                   detailIsLoading, isAddingComment, adminMenuVisible, docs,
                   docComments, adds, updates, deletes, prompt, confirmed,
                   detailAlert, detailGoBacks, ops>>

\* line 261: onChangeText of the comment input
SetNewComment(t) ==
    /\ Interactive
    /\ newComment' = t
    /\ UNCHANGED <<detailFixed, ticketId, ticket, comments, detailIsLoading,
                   isAddingComment, adminMenuVisible, ticketSubs, commentSubs,
                   docs, docComments, adds, updates, deletes, prompt,
                   confirmed, detailAlert, detailGoBacks, detailMounted,
                   ops>>

\* HandleAddComment without the validation of line 103
HandleAddCommentUnvalidated ==
    /\ isAddingComment' = TRUE
    /\ adds' = Append(adds, [ticketId |-> ticketId, doc |-> CommentDoc])

\* lines 102-111: handleAddComment up to its await
HandleAddComment ==
    IF Trim(newComment) = << >> \/ user = NoUser
    THEN UNCHANGED <<isAddingComment, adds>>
    ELSE /\ isAddingComment' = TRUE
         /\ adds' = Append(adds, [ticketId |-> ticketId, doc |-> CommentDoc])

\* lines 267-275: a press of the add Button
PressAddComment ==
    /\ Interactive
    /\ ~AddDisabled
    /\ ops < MaxOps
    /\ ops' = ops + 1
    /\ HandleAddComment
    /\ UNCHANGED <<detailFixed, ticketId, ticket, comments, newComment,
                   detailIsLoading, adminMenuVisible, ticketSubs, commentSubs,
                   docs, docComments, updates, deletes, prompt, confirmed,
                   detailAlert, detailGoBacks, detailMounted>>

\* lines 106-114: addDoc on the comment subcollection settles
AddSettles(i, ok) ==
    /\ i \in 1..Len(adds)
    /\ IF ok
       THEN /\ docComments' =
                 [docComments EXCEPT ![adds[i].ticketId] =
                     Append(@, Resolve(adds[i].doc))]
            /\ newComment' = << >>
            /\ UNCHANGED detailAlert
       ELSE /\ detailAlert' = "No se pudo agregar el comentario."
            /\ UNCHANGED <<docComments, newComment>>
    /\ isAddingComment' = FALSE
    /\ adds' = RemoveAt(adds, i)
    /\ UNCHANGED <<detailFixed, ticketId, ticket, comments, detailIsLoading,
                   adminMenuVisible, ticketSubs, commentSubs, docs, updates,
                   deletes, prompt, confirmed, detailGoBacks,
                   detailMounted, ops>>

\* line 193: the cog button opens the administrative menu
OpenAdminMenu ==
    /\ Interactive
    /\ AdminMenuOffered
    /\ ~adminMenuVisible
    /\ adminMenuVisible' = TRUE
    /\ UNCHANGED <<detailFixed, ticketId, ticket, comments, newComment,
                   detailIsLoading, isAddingComment, ticketSubs, commentSubs,
                   docs, docComments, adds, updates, deletes, prompt,
                   confirmed, detailAlert, detailGoBacks, detailMounted,
                   ops>>

\* line 192: onDismiss of the menu
DismissAdminMenu ==
    /\ Interactive
    /\ AdminMenuOffered
    /\ adminMenuVisible
    /\ adminMenuVisible' = FALSE
    /\ UNCHANGED <<detailFixed, ticketId, ticket, comments, newComment,
                   detailIsLoading, isAddingComment, ticketSubs, commentSubs,
                   docs, docComments, adds, updates, deletes, prompt,
                   confirmed, detailAlert, detailGoBacks, detailMounted,
                   ops>>

\* HandleUpdate without the updatedAt of line 121
HandleUpdateNoTimestamp(dataToUpdate) ==
    IF ticket = NoTicket
    THEN UNCHANGED updates
    ELSE updates' = Append(updates,
             [ticketId |-> ticketId,
              data |-> (dataToUpdate.field :> dataToUpdate.value)])

\* lines 117-121: handleUpdate up to its await
HandleUpdate(dataToUpdate) ==
    IF ticket = NoTicket
    THEN UNCHANGED updates
    ELSE updates' = Append(updates,
             [ticketId |-> ticketId,
              data |-> (dataToUpdate.field :> dataToUpdate.value)
                       @@ ("updatedAt" :> "serverTimestamp")])

\* lines 197-203: a press of one of the menu's update items
PressUpdate(dataToUpdate) ==
    /\ Interactive
    /\ AdminMenuOffered
    /\ adminMenuVisible
    /\ dataToUpdate \in MenuUpdates
    /\ ops < MaxOps
    /\ ops' = ops + 1
    /\ HandleUpdate(dataToUpdate)
    /\ UNCHANGED <<detailFixed, ticketId, ticket, comments, newComment,
                   detailIsLoading, isAddingComment, adminMenuVisible,
                   ticketSubs, commentSubs, docs, docComments, adds, deletes,
                   prompt, confirmed, detailAlert, detailGoBacks,
                   detailMounted>>

\* lines 121-125: updateDoc settles (it is rejected when the record is gone)
UpdateSettles(i, ok) ==
    /\ i \in 1..Len(updates)
    /\ IF ok /\ docs[updates[i].ticketId] # NoDoc
       THEN /\ docs' = [docs EXCEPT ![updates[i].ticketId] =
                           Merge(@, Resolve(updates[i].data))]
            /\ adminMenuVisible' = FALSE
            /\ UNCHANGED detailAlert
       ELSE /\ detailAlert' = "No se pudo actualizar el ticket."
            /\ UNCHANGED <<docs, adminMenuVisible>>
    /\ updates' = RemoveAt(updates, i)
    /\ UNCHANGED <<detailFixed, ticketId, ticket, comments, newComment,
                   detailIsLoading, isAddingComment, ticketSubs, commentSubs,
                   docComments, adds, deletes, prompt, confirmed,
                   detailGoBacks, detailMounted, ops>>

\* lines 128-131: performDelete up to its await, with the ticket t its
\* closure holds: the deletes in flight afterwards
PerformDelete(t) ==
    IF t = NoTicket THEN deletes ELSE Append(deletes, t["id"])

\* HandleDelete with the answer of window.confirm ignored
HandleDeleteUnconfirmed(answer) ==
    /\ Interactive
    /\ AdminMenuOffered
    /\ adminMenuVisible
    /\ ops < MaxOps
    /\ ops' = ops + 1
    /\ adminMenuVisible' = FALSE
    /\ IF platform = "web"
       THEN /\ confirmed' = answer
            /\ deletes' = PerformDelete(ticket)
            /\ UNCHANGED prompt
       ELSE /\ prompt' = ticket
            /\ confirmed' = "none"
            /\ UNCHANGED deletes
    /\ UNCHANGED <<detailFixed, ticketId, ticket, comments, newComment,
                   detailIsLoading, isAddingComment, ticketSubs, commentSubs,
                   docs, docComments, adds, updates, detailAlert,
                   detailGoBacks, detailMounted>>

\* lines 139-157, 205: a press of the menu's delete item; answer is what
\* window.confirm returns on the web
HandleDelete(answer) ==
    /\ Interactive
    /\ AdminMenuOffered
    /\ adminMenuVisible
    /\ ops < MaxOps
    /\ ops' = ops + 1
    /\ IF ticket = NoTicket
       THEN UNCHANGED <<adminMenuVisible, deletes, prompt, confirmed>>
       ELSE /\ adminMenuVisible' = FALSE
            /\ IF platform = "web"
               THEN /\ confirmed' = answer
                    /\ deletes' = IF answer = "yes"
                                  THEN PerformDelete(ticket) ELSE deletes
                    /\ UNCHANGED prompt
               ELSE /\ prompt' = ticket
                    /\ confirmed' = "none"
                    /\ UNCHANGED deletes
    /\ UNCHANGED <<detailFixed, ticketId, ticket, comments, newComment,
                   detailIsLoading, isAddingComment, ticketSubs, commentSubs,
                   docs, docComments, adds, updates, detailAlert,
                   detailGoBacks, detailMounted>>

\* lines 149-155: a button of the native confirmation Alert is pressed; the
\* Alert holds the performDelete of the render that opened it
AnswerPrompt(answer) ==
    /\ prompt # NoPrompt
    /\ prompt' = NoPrompt
    /\ confirmed' = answer
    /\ deletes' = IF answer = "yes" THEN PerformDelete(prompt) ELSE deletes
    /\ UNCHANGED <<detailFixed, ticketId, ticket, comments, newComment,
                   detailIsLoading, isAddingComment, adminMenuVisible,
                   ticketSubs, commentSubs, docs, docComments, adds, updates,
                   detailAlert, detailGoBacks, detailMounted, ops>>

\* line 131: the store applies a delete whose promise is still pending; the
\* listeners are handed the missing record before performDelete goes on
DeleteApplied(i) ==
    /\ i \in 1..Len(deletes)
    /\ docs[deletes[i]] # NoDoc
    /\ docs' = [docs EXCEPT ![deletes[i]] = NoDoc]
    /\ UNCHANGED <<detailFixed, ticketId, ticket, comments, newComment,
                   detailIsLoading, isAddingComment, adminMenuVisible,
                   ticketSubs, commentSubs, docComments, adds, updates,
                   deletes, prompt, confirmed, detailAlert, detailGoBacks,
                   detailMounted, ops>>

\* lines 131-136: deleteDoc settles (a delete the store has applied is not
\* rejected)
DeleteSettles(i, ok) ==
    /\ i \in 1..Len(deletes)
    /\ ok \/ docs[deletes[i]] # NoDoc
    /\ IF ok
       THEN /\ docs' = [docs EXCEPT ![deletes[i]] = NoDoc]
            /\ DetailGoBack
            /\ UNCHANGED detailAlert
       ELSE /\ detailAlert' = "No se pudo eliminar el ticket."
            /\ UNCHANGED <<docs, detailGoBacks, detailMounted, ticketSubs,
                           commentSubs>>
    /\ deletes' = RemoveAt(deletes, i)
    /\ UNCHANGED <<detailFixed, ticketId, ticket, comments, newComment,
                   detailIsLoading, isAddingComment, adminMenuVisible,
                   docComments, adds, updates, prompt, confirmed, ops>>

\* another client writes or deletes a ticket record, or adds a comment
ExternalWrite(id, d) ==
    /\ detailMounted
    /\ ops < MaxOps
    /\ ops' = ops + 1
    /\ docs[id] # d
    /\ docs' = [docs EXCEPT ![id] = d]
    /\ UNCHANGED <<detailFixed, ticketId, ticket, comments, newComment,
                   detailIsLoading, isAddingComment, adminMenuVisible,
                   ticketSubs, commentSubs, docComments, adds, updates,
                   deletes, prompt, confirmed, detailAlert, detailGoBacks,
                   detailMounted>>

ExternalAddComment(id) ==
    /\ detailMounted
    /\ ops < MaxOps
    /\ ops' = ops + 1
    /\ docComments' = [docComments EXCEPT ![id] = Append(@, ExternalComment)]
    /\ UNCHANGED <<detailFixed, ticketId, ticket, comments, newComment,
                   detailIsLoading, isAddingComment, adminMenuVisible,
                   ticketSubs, commentSubs, docs, adds, updates, deletes,
                   prompt, confirmed, detailAlert, detailGoBacks,
                   detailMounted>>

DetailNext ==
    \/ \E l \in ticketSubs : TicketSnapshot(l)
    \/ \E l \in commentSubs : CommentsSnapshot(l)
    \/ \E id \in TicketIds : ChangeTicketId(id)
    \/ LeaveScreen
    \/ \E t \in TextInputs : SetNewComment(t)
    \/ PressAddComment
    \/ \E i \in 1..Len(adds), ok \in BOOLEAN : AddSettles(i, ok)
    \/ OpenAdminMenu
    \/ DismissAdminMenu
    \/ \E u \in [field : {"status", "priority"},
                 value : {"resolved", "in_progress", "low", "medium", "high"}] :
          PressUpdate(u)
    \/ \E i \in 1..Len(updates), ok \in BOOLEAN : UpdateSettles(i, ok)
    \/ \E a \in {"yes", "no"} : HandleDelete(a)
    \/ \E a \in {"yes", "no"} : AnswerPrompt(a)
    \/ \E i \in 1..Len(deletes) : DeleteApplied(i)
    \/ \E i \in 1..Len(deletes), ok \in BOOLEAN : DeleteSettles(i, ok)
    \/ \E id \in TicketIds, d \in ExternalDocs \cup {NoDoc} : ExternalWrite(id, d)
    \/ \E id \in TicketIds : ExternalAddComment(id)

CreateNext ==
    \/ PressSubmit
    \/ \E i \in 1..Len(submits), ok \in BOOLEAN, f \in Filenames : FetchSettles(i, ok, f)
    \/ \E i \in 1..Len(submits), ok \in BOOLEAN : UploadSettles(i, ok)
    \/ \E i \in 1..Len(submits), ok \in BOOLEAN : UrlSettles(i, ok)
    \/ \E i \in 1..Len(submits), ok \in BOOLEAN : InsertSettles(i, ok)
    \/ TimerFires
    \/ SnackbarOk
    \/ SnackbarDismiss
    \/ \E t \in TextInputs : SetTitle(t)
    \/ \E t \in TextInputs : SetDescription(t)
    \/ \E t \in TextInputs : SetLocation(t)
    \/ \E c \in Categories : SetCategory(c)
    \/ \E o \in {"denied", "selected"}, u \in ImageUris : HandlePickImage(o, u)
    \/ RemoveImage

----------------------------------------------------------------------------
(* Specifications *)

Next == CreateNext \/ DetailNext

\* the application as the user and the store drive it
Spec == Init /\ [][Next]_vars

\* every request of the creation handler settles (resolves or rejects)
SubmitSettles ==
    \/ \E i \in 1..Len(submits), ok \in BOOLEAN, f \in Filenames : FetchSettles(i, ok, f)
    \/ \E i \in 1..Len(submits), ok \in BOOLEAN : UploadSettles(i, ok)
    \/ \E i \in 1..Len(submits), ok \in BOOLEAN : UrlSettles(i, ok)
    \/ \E i \in 1..Len(submits), ok \in BOOLEAN : InsertSettles(i, ok)

FairSpec == Spec /\ WF_vars(SubmitSettles)

\* handleSubmit called directly, on any form
HandlerInit ==
    /\ user \in Users
    /\ CreateInit
    /\ DetailInit
    /\ title \in TextInputs
    /\ description \in TextInputs
    /\ location \in TextInputs
    /\ category \in Categories
    /\ imageUri \in {Null} \cup ImageUris
    /\ createMounted = TRUE
    /\ detailMounted = FALSE
    /\ ticketSubs = {}
    /\ commentSubs = {}
    /\ canGoBack = TRUE
    /\ platform = "web"

CallHandleSubmit ==
    /\ Len(created) + Len(submits) < MaxCreated
    /\ HandleSubmit
    /\ UNCHANGED <<user, detailVars>>

HandlerNext ==
    \/ CallHandleSubmit
    \/ SubmitSettles
    \/ TimerFires

HandlerSpec == HandlerInit /\ [][HandlerNext]_vars

\* handleAddComment called on any content of the input, as the handler's own
\* validation (line 103) has to stand without the Button's disabled prop
CommentHandlerInit ==
    /\ user \in Users
    /\ FormInit
    /\ CreateInit
    /\ DetailInit
    /\ createMounted = FALSE
    /\ detailMounted = TRUE
    /\ Subscribed
    /\ canGoBack \in BOOLEAN
    /\ platform \in {"web", "native"}

CallHandleAddComment ==
    /\ detailMounted
    /\ ops < MaxOps
    /\ ops' = ops + 1
    /\ HandleAddComment
    /\ UNCHANGED <<detailFixed, ticketId, ticket, comments, newComment,
                   detailIsLoading, adminMenuVisible, ticketSubs, commentSubs,
                   docs, docComments, updates, deletes, prompt, confirmed,
                   detailAlert, detailGoBacks, detailMounted>>

CommentHandlerNext ==
    \/ CallHandleAddComment
    \/ \E i \in 1..Len(adds), ok \in BOOLEAN : AddSettles(i, ok)
    \/ \E t \in TextInputs : SetNewComment(t)
    \/ \E l \in ticketSubs : TicketSnapshot(l)
    \/ \E l \in commentSubs : CommentsSnapshot(l)
    \/ \E id \in TicketIds : ChangeTicketId(id)

CommentHandlerSpec == CommentHandlerInit /\ [][CommentHandlerNext]_vars

----------------------------------------------------------------------------
(* Properties of the creation screen *)

UploadStages == {"fetch", "upload", "url"}

\* C1: a submission with an image attached has its image uploaded (and the
\* download URL in its record) before the insert into 'tickets' is issued; a
\* submission whose upload fails is dropped without an insert; and a record
\* enters 'tickets' only from an issued insert.
C1_UploadBeforeInsert ==
    [][/\ \A i \in 1..Len(submits') :
             (submits'[i].stage = "insert" /\ submits'[i].imageUri # Null)
                => /\ submits'[i].filename \in storage'
                   /\ submits'[i].doc.imageUrl =
                          DownloadURL(submits'[i].filename)
       /\ \A i \in 1..Len(submits) :
             (submits[i].stage \in UploadStages
                 /\ submits' = RemoveAt(submits, i))
                => created' = created
       /\ created' # created =>
             \E i \in 1..Len(submits) :
                /\ submits[i].stage = "insert"
                /\ created' = Append(created, submits[i].doc)
                /\ submits[i].imageUri # Null => submits[i].doc.imageUrl # NoUrl
      ]_vars

\* a ticket with its image has been created
C1_Witness ==
    \E k \in 1..Len(created) :
        /\ created[k].imageUrl = DownloadURL("evidence1")
        /\ "evidence1" \in storage

BlankField ==
    \/ Trim(title) = << >>
    \/ Trim(description) = << >>
    \/ Trim(location) = << >>

\* C2: called on a form whose title, description or location is empty after
\* trimming, handleSubmit shows the validation message and issues no upload
\* and no insert (and does not raise the loading flag).
C2_ValidationRejects ==
    [][BlankField =>
          /\ createAlert' = "Campos incompletos"
          /\ UNCHANGED <<submits, storage, created, isLoading>>]_vars

\* the handler has rejected a form whose only fault is a blank location
C2_Witness ==
    /\ Trim(title) # << >>
    /\ Trim(description) # << >>
    /\ location = Blank
    /\ user # NoUser
    /\ createAlert = "Campos incompletos"
    /\ submits = << >>

\* the record d is the one the claim describes for the closure c
Carries(c, d) ==
    /\ d.status = "open"
    /\ d.priority = "medium"
    /\ d.title = Trim(c.title)
    /\ d.description = Trim(c.description)
    /\ d.location = Trim(c.location)
    /\ d.category = c.category
    /\ d.createdBy = user.id
    /\ d.createdByName = user.name
    /\ d.imageUrl = IF c.imageUri = Null THEN NoUrl
                    ELSE DownloadURL(c.filename)

\* C8: every record handed to addDoc, and every record inserted, has status
\* 'open', priority 'medium', the trimmed title, description and location,
\* the selected category, the session user's id and name, and imageUrl null
\* without an image and the uploaded image's URL with one.
C8_InsertedRecord ==
    [][/\ \A i \in 1..Len(submits') :
             submits'[i].stage = "insert"
                => Carries(submits'[i], submits'[i].doc)
       /\ created' # created =>
             \E i \in 1..Len(submits) :
                /\ submits[i].stage = "insert"
                /\ Carries(submits[i], submits[i].doc)
                /\ created' = Append(created, submits[i].doc)
      ]_vars

\* a ticket without an image was inserted from padded text and a category
\* other than the default
C8_Witness ==
    \E k \in 1..Len(created) :
        /\ created[k].imageUrl = NoUrl
        /\ created[k].title = <<"a">>
        /\ created[k].category = "software"
        /\ created[k].priority = "medium"

\* C9: the loading flag is set exactly while a creation is in flight, a
\* failure leaves the form as it was, and the flag is cleared in the end on
\* every path.
C9_LoadingCleared ==
    /\ [](isLoading <=> submits # << >>)
    /\ [][(Len(submits') < Len(submits) /\ created' = created)
             => UNCHANGED <<title, description, category, location,
                            imageUri>>]_vars
    /\ (isLoading ~> ~isLoading)

\* a creation has failed and the flag is down, the form still filled in
C9_Witness ==
    /\ createAlert = "Error"
    /\ ~isLoading
    /\ submits = << >>
    /\ created = << >>
    /\ ~BlankField

\* C10: at most one creation and at most one comment add are in flight.
C10_OneInFlight ==
    /\ Len(submits) <= 1
    /\ Len(adds) <= 1

\* a creation is in flight and only the in-flight flag disables the control
C10_Witness ==
    /\ createMounted
    /\ Len(submits) = 1
    /\ isLoading
    /\ ~BlankField

----------------------------------------------------------------------------
(* Properties of the detail screen *)

\* the local ticket is exactly what the snapshot snap of ticket id holds:
\* no ticket when the record is missing, else the record's id and fields,
\* its two timestamps as dates
MirrorsTicket(id, snap) ==
    IF snap.exists
    THEN /\ DOMAIN ticket = DOMAIN snap.data \cup {"id", "createdAt", "updatedAt"}
         /\ ticket["id"] = id
         /\ \A f \in DOMAIN snap.data \ {"createdAt", "updatedAt"} :
               ticket[f] = snap.data[f]
         /\ \A f \in {"createdAt", "updatedAt"} :
               ticket[f] = IF f \in DOMAIN snap.data
                           THEN <<"Date", snap.data[f]>>
                           ELSE <<"Date", "now">>
    ELSE ticket = NoTicket

\* the local comment list is exactly the snapshot's list
MirrorsComments(snap) ==
    /\ Len(comments) = Len(snap.docs)
    /\ \A k \in 1..Len(snap.docs) :
          /\ DOMAIN comments[k] = DOMAIN snap.docs[k] \cup {"id"}
          /\ comments[k]["id"] = k
          /\ \A f \in DOMAIN snap.docs[k] \ {"createdAt"} :
                comments[k][f] = snap.docs[k][f]
          /\ comments[k]["createdAt"] = <<"Date", snap.docs[k]["createdAt"]>>

\* C3: while the screen is mounted, the local ticket and the local comment
\* list are exactly the content of the latest snapshot each listener was
\* handed.
C3_SnapshotMirrored ==
    detailMounted =>
        /\ \A l \in ticketSubs :
              l.last # NoSnap => MirrorsTicket(l.id, l.last)
        /\ \A l \in commentSubs :
              l.last # NoSnap => MirrorsComments(l.last)

localState == <<ticket, comments, newComment, detailIsLoading,
                isAddingComment, adminMenuVisible>>

\* C4: while the screen is mounted there is exactly one ticket listener and
\* one comment listener, both on the current ticketId; once it is unmounted
\* there is none and no local state is set any more.
C4_NoUpdateAfterUnmount ==
    [][/\ detailMounted' =>
             /\ {l.id : l \in ticketSubs'} = {ticketId'}
             /\ {l.id : l \in commentSubs'} = {ticketId'}
             /\ Cardinality(ticketSubs') = 1
             /\ Cardinality(commentSubs') = 1
       /\ ~detailMounted' => ticketSubs' = {} /\ commentSubs' = {}
       /\ ~detailMounted => UNCHANGED localState
      ]_vars

\* C5: a mounted detail screen has never been handed a snapshot that
\* reports its ticket missing: the callback that gets one leaves the screen.
C5_MissingTicketGoesBack ==
    detailMounted =>
        \A l \in ticketSubs : l.last # NoSnap => l.last.exists

\* C6: for a user who is not an administrator the menu is never open, no
\* confirmation is asked or answered, and no update and no delete is in
\* flight.
C6_NonAdminNeverMutates ==
    user.role # "admin" =>
        /\ ~adminMenuVisible
        /\ updates = << >>
        /\ deletes = << >>
        /\ prompt = NoPrompt
        /\ confirmed = "none"

\* a plain user looks at the ticket and has a comment insert in flight
C6_Witness ==
    /\ user.role = "user"
    /\ detailMounted
    /\ Rendered
    /\ adds # << >>

\* C7: a delete is issued only by a step that answers the confirmation
\* with yes, an answer of no issues none; a delete that succeeds removes the
\* record and calls goBack, which leaves the screen when the navigator has
\* a screen to go back to; one that fails shows the error and leaves the
\* local state, the store and the screen as they were.
C7_DeleteAfterConfirmation ==
    [][/\ Len(deletes') > Len(deletes) =>
             /\ confirmed' = "yes"
             /\ prompt # NoPrompt \/ (platform = "web" /\ adminMenuVisible)
             /\ prompt' = NoPrompt
       /\ confirmed' = "no" => Len(deletes') <= Len(deletes)
       /\ \A i \in 1..Len(deletes) :
             (Len(deletes') < Len(deletes) /\ deletes' = RemoveAt(deletes, i))
                => \/ /\ docs'[deletes[i]] = NoDoc
                      /\ detailGoBacks' = detailGoBacks + 1
                      /\ (canGoBack /\ detailMounted) => ~detailMounted'
                      /\ UNCHANGED detailAlert
                   \/ /\ detailAlert' = "No se pudo eliminar el ticket."
                      /\ UNCHANGED <<localState, docs, detailGoBacks,
                                     detailMounted>>
      ]_vars

\* the administrator said yes, the delete succeeded and goBack was called
C7_Witness ==
    /\ confirmed = "yes"
    /\ deletes = << >>
    /\ ticket # NoTicket
    /\ docs[ticketId] = NoDoc
    /\ detailGoBacks = 1
    /\ ops = 1

----------------------------------------------------------------------------
(* Properties of the comment handler and of the administrative actions *)

\* the record d is the comment the session user makes of the content t
CommentOf(d, t) ==
    /\ d.userId = user.id
    /\ d.userName = user.name
    /\ d.content = Trim(t)

\* C11: handleAddComment issues no insert when the content is empty after
\* trimming, and otherwise one insert, on the comments of the current ticket,
\* with the session user's id and name and the trimmed content; an insert
\* that succeeds adds that one record and clears the input; one that fails
\* shows the error, adds nothing and leaves the input as it is.
C11_CommentAppend ==
    [][/\ (ops' # ops /\ ticketId' = ticketId) =>
             IF Trim(newComment) = << >> \/ user = NoUser
             THEN UNCHANGED <<adds, docComments, isAddingComment, newComment>>
             ELSE /\ Len(adds') = Len(adds) + 1
                  /\ adds'[Len(adds')].ticketId = ticketId
                  /\ CommentOf(adds'[Len(adds')].doc, newComment)
                  /\ UNCHANGED <<docComments, newComment>>
       /\ \A i \in 1..Len(adds) :
             adds' = RemoveAt(adds, i) =>
                \/ /\ docComments' =
                         [docComments EXCEPT ![adds[i].ticketId] =
                             Append(@, Resolve(adds[i].doc))]
                   /\ Resolve(adds[i].doc).createdAt = "tsServer"
                   /\ newComment' = << >>
                   /\ UNCHANGED detailAlert
                \/ /\ detailAlert' = "No se pudo agregar el comentario."
                   /\ UNCHANGED <<docComments, newComment>>
       /\ docComments' # docComments => Len(adds') < Len(adds)
      ]_vars

\* a padded comment was inserted trimmed under the user's name and the input
\* is cleared
C11_Witness ==
    /\ Len(docComments["t1"]) = 1
    /\ docComments["t1"][1].content = <<"a">>
    /\ docComments["t1"][1].userId = user.id
    /\ newComment = << >>
    /\ adds = << >>

\* the record after is the record before with the fields of upd written, the
\* update timestamp being the store's time of the write
Written(before, after, upd) ==
    /\ DOMAIN after = DOMAIN before \cup DOMAIN upd
    /\ \A f \in DOMAIN after :
          after[f] = IF f = "updatedAt" THEN "tsServer"
                     ELSE IF f \in DOMAIN upd THEN upd[f]
                     ELSE before[f]

\* C12: every write handleUpdate issues names one field, status or priority,
\* and updatedAt as the server's timestamp, and nothing else; applied, it
\* changes those two fields of that one record; rejected, it shows the
\* update error and leaves the store and the local ticket as they are; no
\* step of an update sets the local ticket.
C12_UpdateWritesFieldAndTimestamp ==
    [][/\ Len(updates') > Len(updates) =>
             /\ updates' = Append(updates, updates'[Len(updates')])
             /\ \E f \in {"status", "priority"} :
                   DOMAIN updates'[Len(updates')].data = {f, "updatedAt"}
             /\ updates'[Len(updates')].data["updatedAt"] = "serverTimestamp"
             /\ UNCHANGED <<docs, ticket>>
       /\ \A i \in 1..Len(updates) :
             updates' = RemoveAt(updates, i) =>
                \/ /\ docs[updates[i].ticketId] # NoDoc
                   /\ Written(docs[updates[i].ticketId],
                              docs'[updates[i].ticketId], updates[i].data)
                   /\ \A s \in TicketIds \ {updates[i].ticketId} :
                         docs'[s] = docs[s]
                   /\ UNCHANGED <<ticket, detailAlert>>
                \/ /\ detailAlert' = "No se pudo actualizar el ticket."
                   /\ UNCHANGED <<docs, ticket, adminMenuVisible>>
      ]_vars

\* the ticket was set to resolved: status and update timestamp are written,
\* its other fields are as before
C12_Witness ==
    /\ updates = << >>
    /\ docs["t1"] = [DocA EXCEPT !.status = "resolved",
                                 !.updatedAt = "tsServer"]
    /\ detailAlert = "none"

\* navigation.goBack() calls of each screen instance
CreateGoBackAtMostOnce == createGoBacks <= 1
DetailGoBackAtMostOnce == detailGoBacks <= 1

\* C13: neither screen calls navigation.goBack() more than once.
C13_GoBackAtMostOnce ==
    /\ CreateGoBackAtMostOnce
    /\ DetailGoBackAtMostOnce

\* C14: on the mounted detail screen a local ticket is the ticket of the
\* current ticketId, so that a write of handleUpdate (addressed by ticketId)
\* and a delete of performDelete (addressed by ticket.id) issued from one
\* render address one record.
C14_TicketIsRequested ==
    (detailMounted /\ ticket # NoTicket) => ticket["id"] = ticketId

====
